---- MODULE Spec2Model ----
(***************************************************************************)
(* Wake/sleep gated speech-session controller (WakeSleepSTT) with its      *)
(* microphone producer, modelled from src/src/wake_sleep_stt.py,           *)
(* src/src/audio_capture.py and the reference loop of src/demo/py_demo.py. *)
(*                                                                         *)
(* Text is a sequence of one-character strings, so that Python's substring *)
(* test, str.lower, str.strip, str.split and " ".join are computed and not *)
(* assumed.                                                                *)
(***************************************************************************)
EXTENDS Integers, Sequences, FiniteSets, TLC

\* ------------------------------------------------------------------ bounds
\* chunks the capture callback delivers in one behaviour
MaxChunks == 4
\* failures in one behaviour (engine exceptions, malformed JSON, device errors,
\* join timeouts)
MaxFaults == 1
\* processing threads ever started (one per successful start())
MaxThreads == 2
\* capacity of the audio queue (queue.Queue(maxsize=500) in the source)
QueueCap == 1
\* subscribers registered with on() in one behaviour
MaxSubs == 3

\* --------------------------------------------------------- program constants
\* cfg.get('vadThreshold', 0.01), in units of the model's energy levels
vad_threshold == 1
\* cfg.get('debounceSecs', 0.6), in clock ticks
debounce_secs == 1
\* the wall clock at construction: time.time() is far beyond debounce_secs
\* of _last_wake_time = 0.0
StartTime == 2
\* last value of the wall clock: late enough for a wake inside and a wake
\* outside the debounce window of a first wake (the clock is read at line 221
\* only, and never runs backwards)
MaxTime == StartTime + debounce_secs + 1

\* ------------------------------------------------------------------- text
hello == <<"h", "e", "l", "l", "o">>
goodbye == <<"g", "o", "o", "d", "b", "y", "e">>
bye == <<"b", "y", "e">>
othello == <<"o", "t", "h", "e", "l", "l", "o">>
goodbyes == <<"G", "o", "o", "d", "b", "y", "e", "s">>
at_the_park == <<" ", "a", "t", " ", "t", "h", "e", " ", "p", "a", "r", "k">>
blank == <<" ", " ">>
empty == <<>>

\* str.lower on one character (the alphabet has one upper-case letter)
LowerChar(c) == IF c = "G" THEN "g" ELSE c

\* str.lower
Lower(s) == [i \in 1..Len(s) |-> LowerChar(s[i])]

IsSpace(c) == c = " "

RECURSIVE LStrip(_)
LStrip(s) == IF s # <<>> /\ IsSpace(Head(s)) THEN LStrip(Tail(s)) ELSE s

RECURSIVE RStrip(_)
RStrip(s) ==
  IF s # <<>> /\ IsSpace(s[Len(s)]) THEN RStrip(SubSeq(s, 1, Len(s) - 1)) ELSE s

\* str.strip
Strip(s) == RStrip(LStrip(s))

\* w in s, Python's substring test on strings
Contains(s, w) ==
  \E i \in 0..(Len(s) - Len(w)) : SubSeq(s, i + 1, i + Len(w)) = w

\* str.split(): the maximal runs of non-whitespace characters, in order
RECURSIVE SplitFrom(_, _, _)
SplitFrom(s, i, cur) ==
  IF i > Len(s)
    THEN (IF cur = <<>> THEN <<>> ELSE <<cur>>)
    ELSE IF IsSpace(s[i])
      THEN (IF cur = <<>> THEN <<>> ELSE <<cur>>) \o SplitFrom(s, i + 1, <<>>)
      ELSE SplitFrom(s, i + 1, Append(cur, s[i]))

Split(s) == SplitFrom(s, 1, <<>>)

\* " ".join(parts)
RECURSIVE Join(_)
Join(parts) ==
  IF parts = <<>> THEN <<>>
  ELSE IF Len(parts) = 1 THEN parts[1]
  ELSE parts[1] \o <<" ">> \o Join(Tail(parts))

Range(f) == {f[i] : i \in DOMAIN f}

\* demo token_exact_in(text, tokens)
token_exact_in(text, tokens) ==
  IF text = <<>> THEN FALSE
  ELSE \E p \in Range(Split(Lower(text))) : p \in Range(tokens)

\* any(w in text.lower() for w in words)
AnyWordIn(text, words) ==
  \E i \in DOMAIN words : Contains(Lower(text), words[i])

\* ------------------------------------------------------------------ state
VARIABLES
  wake_words, sleep_words,        \* self.wake_words, self.sleep_words
  _model,                         \* self._model: loaded or not
  _hot_recognizer,                \* self._hot_recognizer
  _full_recognizer,               \* self._full_recognizer
  _mic,                           \* self._mic and its MicrophoneStream fields
  _running,                       \* self._running
  _awake,                         \* self._awake
  _audio_q,                       \* self._audio_q
  _proc_thread,                   \* self._proc_thread: index of the thread, 0 = None
  _session_buffer,                \* self._session_buffer
  _waiting_for_voiced_chunk,      \* self._waiting_for_voiced_chunk
  _last_wake_time,                \* self._last_wake_time
  threads,                        \* every _processing_loop ever started, with its locals
  stop_pc,                        \* position of the caller inside stop()
  now,                            \* the last value time.time() returned
  produced,                       \* chunks captured so far
  faults,                         \* failures injected so far
  api_events,                     \* events emitted by the last start() call
  wakes_open,                     \* wake events since the last stop() that no sleep event closed
  session_finals,                 \* final transcripts emitted since the last wake event or stop()
  hot_heard_wake,                 \* some hotword final result held a wake-word token
  torn,                           \* stop() tore the state down since the last wake event
  _callbacks,                     \* self._callbacks: per event, what each subscriber does
  calls,                          \* the subscriber calls made by the last _emit
  api_call,                       \* the last call on the public API
  api_raised                      \* that call raised to its caller

vars ==
  << wake_words, sleep_words, _model, _hot_recognizer, _full_recognizer, _mic,
     _running, _awake, _audio_q, _proc_thread, _session_buffer,
     _waiting_for_voiced_chunk, _last_wake_time, threads, stop_pc, now,
     produced, faults, api_events, wakes_open, session_finals, hot_heard_wake,
     torn, _callbacks, calls, api_call, api_raised >>

configVars == << wake_words, sleep_words >>
recVars == << _hot_recognizer, _full_recognizer >>
sessionVars ==
  << _awake, _session_buffer, _waiting_for_voiced_chunk, _last_wake_time >>
lifeVars == << _model, _mic, _running, _proc_thread, stop_pc >>
envVars == << now, produced >>
ghostVars == << api_events, wakes_open, session_finals, hot_heard_wake, torn >>
busVars == << _callbacks, calls, api_call, api_raised >>

\* the cfg dictionaries given to WakeSleepSTT(config)
Configs ==
  { [wakeWords |-> <<hello>>, sleepWords |-> <<goodbye>>],
    [wakeWords |-> <<hello, bye>>, sleepWords |-> <<goodbye>>] }

\* None, for a recognizer attribute
NoRec == [kind |-> "none", grammar |-> FALSE]

\* KaldiRecognizer(model, rate, grammar)
HotRec == [kind |-> "hot", grammar |-> TRUE]

\* KaldiRecognizer(model, rate) standing in for the Hot recognizer
HotFallbackRec == [kind |-> "hot", grammar |-> FALSE]

\* KaldiRecognizer(model, rate)
FullRec == [kind |-> "full", grammar |-> FALSE]

\* None, for self._mic
NoMic == [exists |-> FALSE, stream |-> FALSE, running |-> FALSE]

NoChunk == [id |-> 0, rms |-> 0]

\* a thread that was not started yet; the fields after pc are the locals of
\* _processing_loop; emitted and saved are what the loop emitted and passed to
\* _save_transcript since it last tested self._running
NoThread ==
  [pc |-> "none", session_active |-> FALSE, chunk |-> NoChunk,
   accepted |-> FALSE, raised |-> FALSE, text |-> <<>>,
   emitted |-> <<>>, saved |-> <<>>]

\* no call on the public API yet
NoCall == [op |-> "none", kind |-> "none"]

\* energy levels a captured chunk may have
RmsLevels == {0, 1}

\* texts the Full recognizer may return in Result()/PartialResult()
FullTexts == {empty, blank, at_the_park, goodbye, goodbyes}

\* texts a Hot recognizer created without the grammar may return
FallbackTexts == {empty, hello, othello, goodbye}

\* texts a recognizer restricted to the grammar wake_words + sleep_words returns
GrammarTexts == {empty} \cup Range(wake_words) \cup Range(sleep_words)

\* WakeSleepSTT.__init__
Init ==
  /\ \E cfg \in Configs :
       /\ wake_words = [i \in DOMAIN cfg.wakeWords |-> Lower(cfg.wakeWords[i])]
       /\ sleep_words = [i \in DOMAIN cfg.sleepWords |-> Lower(cfg.sleepWords[i])]
  /\ _model = FALSE
  /\ _hot_recognizer = NoRec
  /\ _full_recognizer = NoRec
  /\ _mic = NoMic
  /\ _running = FALSE
  /\ _awake = FALSE
  /\ _audio_q = <<>>
  /\ _proc_thread = 0
  /\ _session_buffer = <<>>
  /\ _waiting_for_voiced_chunk = FALSE
  /\ _last_wake_time = 0
  /\ threads = [t \in 1..MaxThreads |-> NoThread]
  /\ stop_pc = "idle"
  /\ now = StartTime
  /\ produced = 0
  /\ faults = 0
  /\ api_events = <<>>
  /\ wakes_open = 0
  /\ session_finals = <<>>
  /\ hot_heard_wake = FALSE
  /\ torn = FALSE
  /\ _callbacks = [k \in {"wake", "sleep", "transcript", "error"} |-> <<>>]
  /\ calls = <<>>
  /\ api_call = NoCall
  /\ api_raised = FALSE

\* ---------------------------------------------------------------- helpers
Event(kind, text, isFinal) == [kind |-> kind, text |-> text, isFinal |-> isFinal]

\* _emit(event, payload): the subscribers of the event are called; every
\* failure of a subscriber is caught inside
_emit(log, kind, text, isFinal) == Append(log, Event(kind, text, isFinal))

\* _save_transcript(text): the files written after the call
_save_transcript(files, text) ==
  LET t == Strip(text)
  IN  IF t = <<>> THEN files ELSE Append(files, t \o <<"\n">>)

_is_wake_in(text) == AnyWordIn(text, wake_words)

_is_sleep_in(text) == AnyWordIn(text, sleep_words)

\* _create_hot_recognizer: the recognizer with the grammar, the one without it
\* when the first constructor raises, or the second constructor's exception
\* when the engine refuses both (one failure of the engine either way).
_create_hot_recognizer ==
  { [rec |-> HotRec, ok |-> TRUE, cost |-> 0],
    [rec |-> HotFallbackRec, ok |-> TRUE, cost |-> 1],
    [rec |-> NoRec, ok |-> FALSE, cost |-> 1] }

Afford(outcomes) == {o \in outcomes : faults + o.cost <= MaxFaults}

SetThread(t, r) == [threads EXCEPT ![t] = r]

\* back to the head of the while loop (continue, or the end of the body): the
\* locals of the chunk are dead, the next iteration assigns them before use
AtTop(th) ==
  [th EXCEPT !.pc = "top", !.chunk = NoChunk, !.accepted = FALSE,
             !.raised = FALSE, !.text = <<>>]

\* an exception leaves _processing_loop: the thread ends without the exit path
Crashed(th) == [AtTop(th) EXCEPT !.pc = "crashed"]

\* a thread inside the processing of a chunk (engine calls, callbacks, file I/O)
Busy(th) ==
  th.pc \in {"vad", "full_feed", "full_read", "full_handle",
             "hot_feed", "hot_read", "hot_handle"}

Alive(th) == th.pc \notin {"none", "done", "crashed"}

\* the unmatched wake events after one more wake, one more sleep (a wake after
\* a stop() starts the count again)
Opened(n) == IF n < 2 THEN n + 1 ELSE n
Closed(n) == IF n > -1 THEN n - 1 ELSE n

\* ---------------------------------------------------- MicrophoneStream
\* MicrophoneStream.start(): the stream is created and started, or the
\* RawInputStream constructor or stream.start() raises (DeviceError)
MicStartOutcomes ==
  { [mic |-> [exists |-> TRUE, stream |-> TRUE, running |-> TRUE], ok |-> TRUE, cost |-> 0],
    [mic |-> [exists |-> TRUE, stream |-> FALSE, running |-> FALSE], ok |-> FALSE, cost |-> 1],
    [mic |-> [exists |-> TRUE, stream |-> TRUE, running |-> FALSE], ok |-> FALSE, cost |-> 1] }

\* MicrophoneStream.start() on the stream object m: nothing when it is running
\* already; a constructor that raises leaves self.stream as it was
MicStart(m) ==
  IF m.running THEN { [mic |-> m, ok |-> TRUE, cost |-> 0] }
  ELSE { [mic |-> [exists |-> TRUE, stream |-> TRUE, running |-> TRUE], ok |-> TRUE, cost |-> 0],
         [mic |-> [m EXCEPT !.exists = TRUE], ok |-> FALSE, cost |-> 1],
         [mic |-> [exists |-> TRUE, stream |-> TRUE, running |-> FALSE], ok |-> FALSE, cost |-> 1] }

\* MicrophoneStream.stop()
MicStop(m) ==
  IF ~m.running THEN m ELSE [m EXCEPT !.stream = FALSE, !.running = FALSE]

\* a put that never finds the queue full
put_unbounded(q, item) == [q |-> Append(q, item), full |-> FALSE]

\* queue.Queue(maxsize).put(item, block=False): the item is appended, or
\* queue.Full is raised when the queue holds maxsize items
put(q, item) ==
  IF Len(q) < QueueCap THEN [q |-> Append(q, item), full |-> FALSE]
  ELSE [q |-> q, full |-> TRUE]

\* MicrophoneStream._callback: put(block=False); a full queue drops the chunk
\* (both put attempts raise queue.Full, which is swallowed)
_callback ==
  /\ _mic.running
  /\ produced < MaxChunks
  /\ \E r \in RmsLevels :
       _audio_q' = put(_audio_q, [id |-> produced + 1, rms |-> r]).q
  /\ produced' = produced + 1
  /\ UNCHANGED << configVars, busVars, recVars, sessionVars, lifeVars, threads, now,
                  faults, ghostVars >>

\* ------------------------------------------------------- start() / stop()
\* what start() may do once past the _running guard: Model() raises (an error
\* event, then the exception), _create_hot_recognizer raises, mic.start()
\* raises, or the thread is started
StartOutcomes ==
  { [model |-> FALSE, hot |-> _hot_recognizer, mic |-> _mic,
     run |-> FALSE, err |-> TRUE, cost |-> 1] }
  \cup
  { [model |-> TRUE, hot |-> _hot_recognizer, mic |-> _mic,
     run |-> FALSE, err |-> FALSE, cost |-> h.cost] :
       h \in {x \in _create_hot_recognizer : ~x.ok} }
  \cup
  { [model |-> TRUE, hot |-> h.rec, mic |-> m.mic,
     run |-> m.ok, err |-> FALSE, cost |-> h.cost + m.cost] :
       h \in {x \in _create_hot_recognizer : x.ok},
       m \in MicStartOutcomes }

\* a thread that ended holds no locals any more
Reaped(th) == IF Alive(th) \/ th.pc = "none" THEN th ELSE [NoThread EXCEPT !.pc = th.pc]

NextThread == CHOOSE t \in 1..MaxThreads :
  /\ threads[t].pc = "none"
  /\ \A u \in 1..(t - 1) : threads[u].pc # "none"

\* WakeSleepSTT.start()
start ==
  /\ stop_pc = "idle"
  /\ ~_running
  /\ \E t \in 1..MaxThreads : threads[t].pc = "none"
  /\ \E o \in Afford(StartOutcomes) :
       /\ _model' = (_model \/ o.model)
       /\ _hot_recognizer' = o.hot
       /\ _mic' = o.mic
       /\ _running' = o.run
       /\ faults' = faults + o.cost
       /\ api_events' = IF o.err THEN _emit(<<>>, "error", <<>>, FALSE) ELSE <<>>
       /\ IF o.run
            THEN /\ _proc_thread' = NextThread
                 /\ threads' = [u \in 1..MaxThreads |->
                      IF u = NextThread THEN [NoThread EXCEPT !.pc = "top"]
                      ELSE Reaped(threads[u])]
            ELSE UNCHANGED << _proc_thread, threads >>
  /\ UNCHANGED << configVars, busVars, _full_recognizer, sessionVars, stop_pc, _audio_q,
                  envVars, wakes_open, session_finals, hot_heard_wake, torn >>

\* stop(), lines 76-82: clear the flag and stop the microphone, then join
stop_begin ==
  /\ stop_pc = "idle"
  /\ _running
  /\ _running' = FALSE
  /\ _mic' = NoMic
  /\ stop_pc' = "join"
  /\ UNCHANGED << configVars, busVars, recVars, sessionVars, _model, _proc_thread,
                  threads, _audio_q, envVars, faults, ghostVars >>

\* join(timeout=1.0): it returns once the thread ended, or it times out on a
\* thread that is still inside the processing of a chunk after one second (the
\* timed get and the loop test take less than the join's timeout)
JoinOutcomes ==
  IF ~Alive(threads[_proc_thread]) THEN { [timeout |-> FALSE, cost |-> 0] }
  ELSE IF Busy(threads[_proc_thread]) THEN { [timeout |-> TRUE, cost |-> 1] }
  ELSE {}

\* stop(), lines 83-91: the join returns and the state is torn down
stop_teardown ==
  /\ stop_pc = "join"
  /\ \E o \in Afford(JoinOutcomes) : faults' = faults + o.cost
  /\ _proc_thread' = 0
  /\ _hot_recognizer' = NoRec
  /\ _full_recognizer' = NoRec
  /\ _awake' = FALSE
  /\ _waiting_for_voiced_chunk' = FALSE
  /\ _session_buffer' = <<>>
  /\ stop_pc' = "idle"
  /\ session_finals' = <<>>
  /\ torn' = TRUE
  /\ UNCHANGED << configVars, busVars, _last_wake_time, _model, _mic, _running,
                  threads, _audio_q, envVars, api_events, wakes_open,
                  hot_heard_wake >>

\* ------------------------------------------------------ _processing_loop
\* line 145: while self._running
loop_test(t) ==
  /\ threads[t].pc = "top"
  /\ threads' = SetThread(t,
       [NoThread EXCEPT !.pc = IF _running THEN "get" ELSE "exit",
                        !.session_active = threads[t].session_active])
  /\ UNCHANGED << configVars, busVars, recVars, sessionVars, lifeVars, _audio_q, envVars,
                  faults, ghostVars >>

\* a get() without timeout: it waits until the queue holds a chunk
get_chunk_blocking(t) ==
  /\ threads[t].pc = "get"
  /\ _audio_q # <<>>
  /\ threads' = SetThread(t, [threads[t] EXCEPT !.pc = "vad", !.chunk = Head(_audio_q)])
  /\ _audio_q' = Tail(_audio_q)
  /\ UNCHANGED << configVars, busVars, recVars, sessionVars, lifeVars, envVars,
                  faults, ghostVars >>

\* lines 146-152: self._audio_q.get(timeout=0.5); queue.Empty goes back to the test
get_chunk(t) ==
  /\ threads[t].pc = "get"
  /\ IF _audio_q = <<>>
       THEN /\ threads' = SetThread(t, AtTop(threads[t]))
            /\ UNCHANGED _audio_q
       ELSE /\ threads' = SetThread(t, [threads[t] EXCEPT !.pc = "vad", !.chunk = Head(_audio_q)])
            /\ _audio_q' = Tail(_audio_q)
  /\ UNCHANGED << configVars, busVars, recVars, sessionVars, lifeVars, envVars, faults,
                  ghostVars >>

\* _rms_from_int16_bytes(chunk): the chunk's energy level
_rms_from_int16_bytes(chunk) == chunk.rms

\* a gate that lets every chunk through, whatever its energy
VoicedAlways(chunk) == TRUE

\* line 156: rms >= self.vad_threshold
Voiced(chunk) == _rms_from_int16_bytes(chunk) >= vad_threshold

\* the chunk once its energy was looked at (rms is not read after line 156)
Gated(th) == [th EXCEPT !.chunk.rms = 0]

\* a choice that leaves the chunk of the wake transition unfed
DispatchNext(session_active, full, hot) ==
  IF session_active /\ full # NoRec THEN "top"
  ELSE IF hot # NoRec THEN "hot_feed"
  ELSE "top"

\* lines 172 and 210: which recognizer the chunk goes to
Dispatch(session_active, full, hot) ==
  IF session_active /\ full # NoRec THEN "full_feed"
  ELSE IF hot # NoRec THEN "hot_feed"
  ELSE "top"

\* lines 157-169: the Full recognizer is created and the session opened, or
\* KaldiRecognizer raises, or SetWords raises after the attribute was assigned
WakeOutcomes ==
  { [full |-> FullRec, ok |-> TRUE, cost |-> 0],
    [full |-> _full_recognizer, ok |-> FALSE, cost |-> 1],
    [full |-> FullRec, ok |-> FALSE, cost |-> 1] }

\* lines 160-164: the attributes the wake transition assigns
Woken == [awake |-> TRUE, buffer |-> <<>>, waiting |-> FALSE, hot |-> NoRec]

\* lines 154-172, 210: the wait for a voiced chunk, the wake transition and the
\* choice of the recognizer
vad_gate(t) ==
  LET th == threads[t]
  IN
  /\ th.pc = "vad"
  /\ IF _waiting_for_voiced_chunk
       THEN IF Voiced(th.chunk)
         THEN \E o \in Afford(WakeOutcomes) :
                /\ _full_recognizer' = o.full
                /\ faults' = faults + o.cost
                /\ IF o.ok
                     THEN /\ _awake' = Woken.awake
                          /\ _session_buffer' = Woken.buffer
                          /\ _waiting_for_voiced_chunk' = Woken.waiting
                          /\ _hot_recognizer' = Woken.hot
                          /\ wakes_open' = IF torn THEN 1 ELSE Opened(wakes_open)
                          /\ session_finals' = <<>>
                          /\ torn' = FALSE
                          /\ threads' = SetThread(t,
                               [Gated(th) EXCEPT !.session_active = TRUE,
                                          !.emitted = _emit(@, "wake", hello, FALSE),
                                          !.pc = Dispatch(TRUE, o.full, NoRec)])
                     ELSE /\ _waiting_for_voiced_chunk' = FALSE
                          /\ threads' = SetThread(t,
                               [AtTop(th) EXCEPT !.emitted = _emit(@, "error", <<>>, FALSE)])
                          /\ UNCHANGED << _awake, _session_buffer, _hot_recognizer,
                                          wakes_open, session_finals, torn >>
         ELSE /\ threads' = SetThread(t, AtTop(th))
              /\ UNCHANGED << recVars, _awake, _session_buffer,
                              _waiting_for_voiced_chunk, faults, wakes_open,
                              session_finals, torn >>
       ELSE /\ threads' = SetThread(t,
                 LET d == Dispatch(th.session_active, _full_recognizer, _hot_recognizer)
                 IN  IF d = "top" THEN AtTop(th) ELSE [Gated(th) EXCEPT !.pc = d])
            /\ UNCHANGED << recVars, _awake, _session_buffer,
                            _waiting_for_voiced_chunk, faults, wakes_open,
                            session_finals, torn >>
  /\ UNCHANGED << configVars, busVars, _last_wake_time, lifeVars, _audio_q, envVars,
                  api_events, hot_heard_wake >>

\* AcceptWaveform(chunk) on a recognizer attribute: True or False, or an
\* exception (raised too when the attribute was set to None meanwhile)
FeedOutcomes(rec) ==
  IF rec = NoRec
    THEN { [accepted |-> FALSE, raised |-> TRUE, cost |-> 0] }
    ELSE { [accepted |-> TRUE, raised |-> FALSE, cost |-> 0],
           [accepted |-> FALSE, raised |-> FALSE, cost |-> 0],
           [accepted |-> FALSE, raised |-> TRUE, cost |-> 1] }

\* lines 173-177: the chunk is fed to the Full recognizer; an exception is
\* reported and taken for accepted = False
full_feed(t) ==
  LET th == threads[t]
  IN
  /\ th.pc = "full_feed"
  /\ \E o \in Afford(FeedOutcomes(_full_recognizer)) :
       /\ faults' = faults + o.cost
       /\ threads' = SetThread(t,
            [th EXCEPT !.pc = "full_read",
                       !.accepted = o.accepted,
                       !.raised = o.raised,
                       !.emitted = IF o.raised THEN _emit(@, "error", <<>>, FALSE) ELSE @])
  /\ UNCHANGED << configVars, busVars, recVars, sessionVars, lifeVars, _audio_q, envVars,
                  ghostVars >>

\* the texts Result() and PartialResult() of a recognizer may hold
ResultTexts(rec) ==
  IF rec.kind = "full" THEN FullTexts
  ELSE IF rec.grammar THEN GrammarTexts
  ELSE FallbackTexts

\* json.loads(rec.Result()) or json.loads(rec.PartialResult()), then the text
\* field: a text, or an uncaught exception (malformed JSON, or the attribute
\* is None)
ReadOutcomes(rec) ==
  IF rec = NoRec
    THEN { [text |-> <<>>, ok |-> FALSE, cost |-> 0] }
    ELSE { [text |-> x, ok |-> TRUE, cost |-> 0] : x \in ResultTexts(rec) }
         \cup { [text |-> <<>>, ok |-> FALSE, cost |-> 1] }

\* lines 180-181 and 195-196: the final or the partial result is read and stripped
full_read(t) ==
  LET th == threads[t]
  IN
  /\ th.pc = "full_read"
  /\ \E o \in Afford(ReadOutcomes(_full_recognizer)) :
       /\ faults' = faults + o.cost
       /\ threads' = SetThread(t,
            IF o.ok THEN [th EXCEPT !.pc = "full_handle", !.text = Strip(o.text)]
                    ELSE Crashed(th))
  /\ UNCHANGED << configVars, busVars, recVars, sessionVars, lifeVars, _audio_q, envVars,
                  ghostVars >>

\* a final-result branch that never appends to the buffer
BufferedLost(th) == _session_buffer

\* lines 182-184: a final result is appended to the buffer
Buffered(th) ==
  IF th.accepted THEN Append(_session_buffer, th.text) ELSE _session_buffer

\* lines 188-189 and 202-203: what the sleep transition passes to _save_transcript
SleepSaves(buf) == IF buf # <<>> THEN << Join(buf) >> ELSE <<>>

\* lines 179-207: a final result is appended and emitted, a partial result is
\* emitted; a sleep word in either ends the session
full_handle(t) ==
  LET th == threads[t]
      buf1 == Buffered(th)
      ev1 == _emit(th.emitted, "transcript", th.text, th.accepted)
      fin1 == IF th.accepted THEN Append(session_finals, th.text) ELSE session_finals
  IN
  /\ th.pc = "full_handle"
  /\ IF th.text = <<>>
       THEN /\ threads' = SetThread(t, AtTop(th))
            /\ UNCHANGED << recVars, _awake, _session_buffer, faults, wakes_open,
                            session_finals >>
       ELSE IF ~_is_sleep_in(th.text)
         THEN /\ _session_buffer' = buf1
              /\ session_finals' = fin1
              /\ threads' = SetThread(t, [AtTop(th) EXCEPT !.emitted = ev1])
              /\ UNCHANGED << recVars, _awake, faults, wakes_open >>
         ELSE \E h \in Afford(_create_hot_recognizer) :
              /\ _awake' = FALSE
              /\ _session_buffer' = <<>>
              /\ _full_recognizer' = NoRec
              /\ faults' = faults + h.cost
              /\ session_finals' = <<>>
              /\ IF h.ok
                   THEN /\ _hot_recognizer' = h.rec
                        /\ wakes_open' = Closed(wakes_open)
                        /\ threads' = SetThread(t,
                             [AtTop(th) EXCEPT !.session_active = FALSE,
                                               !.saved = @ \o SleepSaves(buf1),
                                               !.emitted = _emit(ev1, "sleep", th.text, FALSE)])
                   ELSE /\ threads' = SetThread(t,
                             [Crashed(th) EXCEPT !.session_active = FALSE,
                                                 !.saved = @ \o SleepSaves(buf1),
                                                 !.emitted = ev1])
                        /\ UNCHANGED << _hot_recognizer, wakes_open >>
  /\ UNCHANGED << configVars, busVars, _waiting_for_voiced_chunk, _last_wake_time,
                  lifeVars, _audio_q, envVars, api_events, hot_heard_wake, torn >>

\* lines 211-215: the chunk is fed to the Hot recognizer
hot_feed(t) ==
  LET th == threads[t]
  IN
  /\ th.pc = "hot_feed"
  /\ \E o \in Afford(FeedOutcomes(_hot_recognizer)) :
       /\ faults' = faults + o.cost
       /\ threads' = SetThread(t,
            [(IF o.accepted
                THEN [th EXCEPT !.pc = "hot_read", !.accepted = TRUE]
                ELSE AtTop(th))
             EXCEPT !.emitted = IF o.raised THEN _emit(@, "error", <<>>, FALSE) ELSE @])
  /\ UNCHANGED << configVars, busVars, recVars, sessionVars, lifeVars, _audio_q, envVars,
                  ghostVars >>

\* lines 218-219: the hotword final result is read, stripped and lower-cased
hot_read(t) ==
  LET th == threads[t]
  IN
  /\ th.pc = "hot_read"
  /\ \E o \in Afford(ReadOutcomes(_hot_recognizer)) :
       /\ faults' = faults + o.cost
       /\ threads' = SetThread(t,
            IF o.ok THEN [th EXCEPT !.pc = "hot_handle", !.text = Lower(Strip(o.text))]
                    ELSE Crashed(th))
       /\ hot_heard_wake' = (hot_heard_wake \/ (o.ok /\ token_exact_in(o.text, wake_words)))
  /\ UNCHANGED << configVars, busVars, recVars, sessionVars, lifeVars, _audio_q, envVars,
                  api_events, wakes_open, session_finals, torn >>

\* a wake test without the debounce comparison
WakeAcceptedNoDebounce(th, clock) ==
  /\ th.text # <<>>
  /\ ~th.session_active
  /\ _is_wake_in(th.text)

\* line 221: the wake is accepted; clock is what time.time() returns there
WakeAccepted(th, clock) ==
  /\ th.text # <<>>
  /\ ~th.session_active
  /\ _is_wake_in(th.text)
  /\ (clock - _last_wake_time) > debounce_secs

\* lines 220-223: an accepted wake word arms the wait for a voiced chunk
hot_handle(t) ==
  LET th == threads[t]
  IN
  /\ th.pc = "hot_handle"
  /\ \E clock \in now..MaxTime :
       /\ now' = clock
       /\ IF WakeAccepted(th, clock)
            THEN /\ _last_wake_time' = clock
                 /\ _waiting_for_voiced_chunk' = TRUE
            ELSE UNCHANGED << _last_wake_time, _waiting_for_voiced_chunk >>
  /\ threads' = SetThread(t, AtTop(th))
  /\ UNCHANGED << configVars, busVars, recVars, _awake, _session_buffer, lifeVars,
                  _audio_q, produced, faults, ghostVars >>

\* lines 227-228: what the exit path passes to _save_transcript
ExitSaves ==
  IF _awake /\ _session_buffer # <<>> THEN << Join(_session_buffer) >> ELSE <<>>

\* lines 227-232: after the loop, an open session is saved and the queue emptied
loop_exit(t) ==
  LET th == threads[t]
  IN
  /\ th.pc = "exit"
  /\ _audio_q' = <<>>
  /\ threads' = SetThread(t, [th EXCEPT !.pc = "done", !.saved = @ \o ExitSaves])
  /\ UNCHANGED << configVars, busVars, recVars, sessionVars, lifeVars, envVars, faults,
                  ghostVars >>

\* the transcript files a thread wrote since it last tested self._running
RECURSIVE Files(_)
Files(args) ==
  IF args = <<>> THEN <<>>
  ELSE _save_transcript(Files(SubSeq(args, 1, Len(args) - 1)), args[Len(args)])

Next ==
  \/ start
  \/ stop_begin
  \/ stop_teardown
  \/ _callback
  \/ \E t \in 1..MaxThreads :
       \/ loop_test(t)
       \/ get_chunk(t)
       \/ vad_gate(t)
       \/ full_feed(t)
       \/ full_read(t)
       \/ full_handle(t)
       \/ hot_feed(t)
       \/ hot_read(t)
       \/ hot_handle(t)
       \/ loop_exit(t)

Spec == Init /\ [][Next]_vars

\* the steps of the processing thread t
loop_step(t) ==
  \/ loop_test(t)
  \/ get_chunk(t)
  \/ vad_gate(t)
  \/ full_feed(t)
  \/ full_read(t)
  \/ full_handle(t)
  \/ hot_feed(t)
  \/ hot_read(t)
  \/ hot_handle(t)
  \/ loop_exit(t)

\* every started thread is scheduled again and again, and each call it makes
\* (the timed get, the recognizers, the subscribers, the file write) returns
FairSpec == Spec /\ \A t \in 1..MaxThreads : WF_vars(loop_step(t))


\* ------------------------------------------- the event bus and the stream
\* The public calls on a controller that is not running and on a
\* MicrophoneStream of its own: on(), _emit(), close(), start(), stop().

\* the event kinds of the subscription API
EventKinds == {"wake", "sleep", "transcript", "error", "closed"}

\* what a subscriber does when called: it returns, or it raises an Exception
Behaviours == {"returns", "raises"}

\* self._callbacks.get(event, [])
Get(cbs, event) == IF event \in DOMAIN cbs THEN cbs[event] ELSE <<>>

SubCount ==
  Len(_callbacks["wake"]) + Len(_callbacks["sleep"])
  + Len(_callbacks["transcript"]) + Len(_callbacks["error"])

\* lines 102-106: the failure is handed to every error subscriber in turn; what
\* an error subscriber raises is dropped
ReportCalls(errs) ==
  [j \in DOMAIN errs |-> [kind |-> "error", idx |-> j, report |-> TRUE]]

\* an _emit that stops at the first subscriber that raises
RECURSIVE EmitCallsAbort(_, _, _, _)
EmitCallsAbort(cbs, event, subs, i) ==
  IF i > Len(subs) THEN <<>>
  ELSE << [kind |-> event, idx |-> i, report |-> FALSE] >>
       \o (IF subs[i] = "raises" THEN ReportCalls(Get(cbs, "error"))
           ELSE EmitCallsAbort(cbs, event, subs, i + 1))

\* lines 98-106: the subscribers of the event from the i-th on are called in
\* turn; a subscriber that raises is reported and the loop goes on
RECURSIVE EmitCalls(_, _, _, _)
EmitCalls(cbs, event, subs, i) ==
  IF i > Len(subs) THEN <<>>
  ELSE << [kind |-> event, idx |-> i, report |-> FALSE] >>
       \o (IF subs[i] = "raises" THEN ReportCalls(Get(cbs, "error")) ELSE <<>>)
       \o EmitCalls(cbs, event, subs, i + 1)

\* on(event, cb), lines 50-53
on(event, cb) ==
  /\ SubCount < MaxSubs
  /\ api_call' = [op |-> "on", kind |-> event]
  /\ IF event \notin DOMAIN _callbacks
       THEN /\ api_raised' = TRUE
            /\ UNCHANGED _callbacks
       ELSE /\ api_raised' = FALSE
            /\ _callbacks' = [_callbacks EXCEPT ![event] = Append(@, cb)]
  /\ calls' = <<>>
  /\ UNCHANGED << configVars, recVars, sessionVars, lifeVars, _audio_q, threads,
                  envVars, faults, ghostVars >>

\* _emit(event, payload), lines 97-106: both try blocks catch Exception, so
\* nothing a subscriber raises leaves the call
emit(event) ==
  /\ calls' = EmitCalls(_callbacks, event, Get(_callbacks, event), 1)
  /\ api_call' = [op |-> "emit", kind |-> event]
  /\ api_raised' = FALSE
  /\ UNCHANGED << configVars, recVars, sessionVars, lifeVars, _audio_q, threads,
                  envVars, faults, ghostVars, _callbacks >>

\* close(), lines 93-95, on a controller that is not running: stop() returns
\* at once, then _emit('closed', None)
close ==
  /\ ~_running /\ stop_pc = "idle"
  /\ calls' = EmitCalls(_callbacks, "closed", Get(_callbacks, "closed"), 1)
  /\ api_call' = [op |-> "close", kind |-> "closed"]
  /\ api_raised' = FALSE
  /\ UNCHANGED << configVars, recVars, sessionVars, lifeVars, _audio_q, threads,
                  envVars, faults, ghostVars, _callbacks >>

\* MicrophoneStream.start(), audio_capture.py lines 30-43
mic_start ==
  /\ \E o \in Afford(MicStart(_mic)) :
       /\ _mic' = o.mic
       /\ faults' = faults + o.cost
       /\ api_raised' = ~o.ok
  /\ api_call' = [op |-> "mic_start", kind |-> "none"]
  /\ calls' = <<>>
  /\ UNCHANGED << configVars, recVars, sessionVars, _model, _running,
                  _proc_thread, stop_pc, _audio_q, threads, envVars, ghostVars,
                  _callbacks >>

\* MicrophoneStream.stop(), audio_capture.py lines 45-55
mic_stop ==
  /\ _mic' = MicStop(_mic)
  /\ api_raised' = FALSE
  /\ api_call' = [op |-> "mic_stop", kind |-> "none"]
  /\ calls' = <<>>
  /\ UNCHANGED << configVars, recVars, sessionVars, _model, _running,
                  _proc_thread, stop_pc, _audio_q, threads, envVars, faults,
                  ghostVars, _callbacks >>

ApiNext ==
  \/ \E event \in EventKinds, cb \in Behaviours : on(event, cb)
  \/ \E event \in DOMAIN _callbacks : emit(event)
  \/ close
  \/ mic_start
  \/ mic_stop

ApiSpec == Init /\ [][ApiNext]_vars

\* ----------------------------------------------------------- properties
Threads == 1..MaxThreads

\* the events thread t emits in the step
Appended(t) ==
  LET old == threads[t].emitted
      new == threads'[t].emitted
  IN  IF Len(new) >= Len(old) /\ SubSeq(new, 1, Len(old)) = old
        THEN SubSeq(new, Len(old) + 1, Len(new))
        ELSE <<>>

Kinds(log) == {log[i].kind : i \in DOMAIN log}

\* thread t leaves the place pc in the step
Leaves(t, pc) == threads[t].pc = pc /\ threads'[t].pc # pc

\* the controller is Idle: no session, no wait for a voiced chunk
Idle(t) ==
  ~threads[t].session_active /\ ~_awake /\ ~_waiting_for_voiced_chunk
  /\ _full_recognizer = NoRec

at_the_park_goodbye ==
  <<"a", "t", " ", "t", "h", "e", " ", "p", "a", "r", "k", " ",
    "g", "o", "o", "d", "b", "y", "e">>

\* C1: as long as no hotword final result held a token equal to a wake word,
\* no thread has passed anything to _save_transcript, in the loop or at its exit
C1_NoFalseTranscript ==
  hot_heard_wake \/ \A t \in Threads : threads[t].saved = <<>>

\* C2: a sleep event closes exactly one open wake event, and a wake event is
\* emitted only when no wake is open or a stop() came after the open one
C2_Pairing == wakes_open \in {0, 1}

\* C3: a hotword final result arms the wake exactly when one of its tokens is
\* a wake word (the session being idle and the debounce over), and a result of
\* the Full recognizer ends the session exactly when one of its tokens is a
\* sleep word
C3_ExactTokenMatch ==
  [][\A t \in Threads :
       /\ ( /\ Leaves(t, "hot_handle")
            /\ threads[t].text # <<>>
            /\ ~threads[t].session_active
            /\ now' - _last_wake_time > debounce_secs )
          => ( _waiting_for_voiced_chunk'
               <=> token_exact_in(threads[t].text, wake_words) )
       /\ ( Leaves(t, "full_handle") /\ threads[t].text # <<>> )
          => ( ("sleep" \in Kinds(Appended(t)))
               <=> token_exact_in(threads[t].text, sleep_words) )
    ]_vars

\* C4: when stop() tears the state down with a session awake and segments in
\* the buffer, the processing thread has ended and has saved exactly those
\* segments at its exit, without a sleep event
C4_ShutdownPersists ==
  [][( stop_pc = "join" /\ stop_pc' = "idle"
       /\ _awake /\ _session_buffer # <<>> )
     => /\ threads[_proc_thread].pc = "done"
        /\ threads[_proc_thread].saved = << Join(_session_buffer) >>
        /\ "sleep" \notin Kinds(threads[_proc_thread].emitted)
    ]_vars

\* C5: a final result of the Full recognizer with a sleep-word token, in a
\* session no stop() interrupted, saves the space-joined final segments emitted
\* since the wake followed by this one, after emitting this segment as a final
\* transcript and then one sleep event
C5_PersistedContent ==
  [][\A t \in Threads :
       ( /\ threads[t].pc = "full_handle" /\ threads'[t].pc = "top"
         /\ threads[t].accepted
         /\ token_exact_in(threads[t].text, sleep_words)
         /\ ~torn )
       => /\ threads'[t].saved =
               threads[t].saved \o << Join(Append(session_finals, threads[t].text)) >>
          /\ Appended(t) = << Event("transcript", threads[t].text, TRUE),
                              Event("sleep", threads[t].text, FALSE) >>
          /\ ( session_finals = << Strip(at_the_park) >> /\ threads[t].text = goodbye
               => threads'[t].saved = threads[t].saved \o << at_the_park_goodbye >> )
    ]_vars

C5_Witness ==
  \E t \in Threads :
    /\ threads[t].saved = << at_the_park_goodbye >>
    /\ threads[t].emitted # <<>>
    /\ threads[t].emitted[Len(threads[t].emitted)] = Event("sleep", goodbye, FALSE)
    /\ ~torn

\* the final result a force-fetch (Result()) yields after PartialResult()
\* showed th.text: the pending hypothesis, finalised (demo lines 186-190)
ForcedFinal(th) == th.text

\* C6: a partial result with a sleep-word token saves the buffer extended by
\* the force-fetched final result
C6_PartialSleepForcesFinal ==
  [][\A t \in Threads :
       ( /\ threads[t].pc = "full_handle" /\ threads'[t].pc = "top"
         /\ ~threads[t].accepted
         /\ token_exact_in(threads[t].text, sleep_words) )
       => threads'[t].saved =
            threads[t].saved
              \o << Join(Append(_session_buffer, ForcedFinal(threads[t]))) >>
    ]_vars

\* C7: while the controller waits for a voiced chunk, a chunk below the
\* threshold is dropped with nothing emitted, fed or changed; a chunk at or
\* above it ends the wait and emits one wake event (an error event when the
\* Full recognizer cannot be created); no other step emits a wake event
C7_VadGating ==
  [][\A t \in Threads :
       /\ ( Leaves(t, "vad") /\ _waiting_for_voiced_chunk
            /\ threads[t].chunk.rms < vad_threshold )
          => /\ Appended(t) = <<>>
             /\ threads'[t].pc = "top"
             /\ threads'[t].session_active = threads[t].session_active
             /\ UNCHANGED << recVars, sessionVars >>
       /\ ( Leaves(t, "vad") /\ _waiting_for_voiced_chunk
            /\ threads[t].chunk.rms >= vad_threshold )
          => /\ ~_waiting_for_voiced_chunk'
             /\ \/ Appended(t) = << Event("wake", hello, FALSE) >>
                \/ Appended(t) = << Event("error", <<>>, FALSE) >>
       /\ ( "wake" \in Kinds(Appended(t)) )
          => /\ threads[t].pc = "vad"
             /\ _waiting_for_voiced_chunk
             /\ threads[t].chunk.rms >= vad_threshold
    ]_vars

C7_Witness ==
  \E t \in Threads :
    /\ threads[t].pc = "vad"
    /\ _waiting_for_voiced_chunk
    /\ threads[t].chunk.rms < vad_threshold
    /\ threads[t].chunk.id > 2

\* C8: a hotword final result with a wake-word token, read within
\* debounce_secs of the last accepted wake, changes neither _last_wake_time nor
\* the wait for a voiced chunk and emits nothing
C8_Debounce ==
  [][\A t \in Threads :
       ( /\ Leaves(t, "hot_handle")
         /\ token_exact_in(threads[t].text, wake_words)
         /\ now' - _last_wake_time <= debounce_secs )
       => /\ UNCHANGED << _last_wake_time, _waiting_for_voiced_chunk >>
          /\ Appended(t) = <<>>
    ]_vars

C8_Witness ==
  \E t \in Threads :
    /\ threads[t].pc = "hot_handle"
    /\ token_exact_in(threads[t].text, wake_words)
    /\ ~threads[t].session_active
    /\ _last_wake_time >= StartTime
    /\ now - _last_wake_time <= debounce_secs
    /\ _running /\ stop_pc = "idle"

\* C9: a hotword final result equal to a sleep word, handled while idle, emits
\* nothing and changes no state of the controller
C9_IdleSleepWordNoOp ==
  [][\A t \in Threads :
       ( /\ Leaves(t, "hot_handle")
         /\ threads[t].text \in Range(sleep_words)
         /\ Idle(t) )
       => /\ Appended(t) = <<>>
          /\ threads'[t].session_active = threads[t].session_active
          /\ UNCHANGED << recVars, sessionVars >>
    ]_vars

\* C10: a feed that raises emits an error event, and nothing else follows from
\* its chunk: no result is read, no transcript or sleep event is emitted, and
\* the session state, the recognizers and the buffer stay as they are
C10_FeedErrorDropsChunk ==
  [][\A t \in Threads :
       /\ ( threads[t].pc \in {"full_feed", "hot_feed"} /\ threads'[t].raised )
          => Appended(t) = << Event("error", <<>>, FALSE) >>
       /\ ( threads[t].raised /\ threads'[t] # threads[t] )
          => /\ Kinds(Appended(t)) \cap {"transcript", "sleep"} = {}
             /\ threads'[t].session_active = threads[t].session_active
             /\ threads'[t].pc \notin {"full_handle", "hot_handle"}
             /\ UNCHANGED << recVars, sessionVars >>
    ]_vars

\* C11: when creating the Full recognizer fails at the wake transition, or
\* _create_hot_recognizer fails at the sleep transition, an error event is
\* emitted, the controller is Idle with a Hot recognizer, and the loop goes on
\* with the next chunk
C11_CreationFailureRevertsToIdle ==
  [][\A t \in Threads :
       ( \/ /\ Leaves(t, "vad")
            /\ _waiting_for_voiced_chunk
            /\ threads[t].chunk.rms >= vad_threshold
            /\ faults' > faults
         \/ /\ Leaves(t, "full_handle")
            /\ threads[t].text # <<>>
            /\ _is_sleep_in(threads[t].text)
            /\ faults' > faults
            /\ _hot_recognizer' = NoRec )
       => /\ "error" \in Kinds(Appended(t))
          /\ Kinds(Appended(t)) \cap {"wake", "sleep"} = {}
          /\ ~_awake' /\ ~_waiting_for_voiced_chunk'
          /\ ~threads'[t].session_active
          /\ _hot_recognizer' # NoRec
          /\ threads'[t].pc = "top"
    ]_vars

\* C12: a Result() or PartialResult() that cannot be parsed is taken for an
\* empty result: nothing is emitted, no state changes, and the loop goes back
\* to its head for the next chunk
C12_MalformedOutputIsEmpty ==
  [][\A t \in Threads :
       ( /\ \/ Leaves(t, "full_read") /\ _full_recognizer # NoRec
            \/ Leaves(t, "hot_read") /\ _hot_recognizer # NoRec
         /\ faults' > faults )
       => /\ Appended(t) = <<>>
          /\ threads'[t].pc = "top"
          /\ threads'[t].session_active = threads[t].session_active
          /\ UNCHANGED << recVars, sessionVars >>
    ]_vars

\* the calls of the last _emit made to the subscribers of its own event
IsDirect(c) == ~c.report

\* C13: _emit calls every subscriber of the event, in subscription order; each
\* subscriber that raises is followed by a call to every error subscriber, in
\* order, before the next subscriber is called; nothing is called besides, and
\* no exception leaves _emit
C13_EmitContainsFailures ==
  api_call.op \in {"emit", "close"} =>
    LET subs == Get(_callbacks, api_call.kind)
        errs == Get(_callbacks, "error")
    IN  /\ SelectSeq(calls, IsDirect) =
             [i \in DOMAIN subs |-> [kind |-> api_call.kind, idx |-> i, report |-> FALSE]]
        /\ \A p \in DOMAIN calls :
             ( ~calls[p].report /\ subs[calls[p].idx] = "raises" )
             => \A j \in DOMAIN errs :
                  /\ p + j <= Len(calls)
                  /\ calls[p + j] = [kind |-> "error", idx |-> j, report |-> TRUE]
        /\ \A p \in DOMAIN calls :
             calls[p].report
             => /\ p - calls[p].idx \in DOMAIN calls
                /\ ~calls[p - calls[p].idx].report
                /\ subs[calls[p - calls[p].idx].idx] = "raises"
        /\ ~api_raised

C13_Witness ==
  /\ api_call = [op |-> "emit", kind |-> "wake"]
  /\ _callbacks["wake"] = << "raises", "returns" >>
  /\ _callbacks["error"] = << "raises" >>
  /\ Len(calls) = 3
  /\ calls[3] = [kind |-> "wake", idx |-> 2, report |-> FALSE]

\* C14: on() accepts each of the kinds wake, sleep, transcript, error and
\* closed without raising, and close() calls every subscriber of closed
C14_SubscriptionKinds ==
  /\ ( api_call.op = "on" /\ api_call.kind \in EventKinds ) => ~api_raised
  /\ api_call.op = "close" => "closed" \in DOMAIN _callbacks

\* C16: after MicrophoneStream.stop() no device stream is held and the stream
\* object is not running
C16_StopReleasesStream ==
  api_call.op = "mic_stop" => ( ~_mic.stream /\ ~_mic.running )

\* C15: the audio queue never holds more chunks than its capacity, and a chunk
\* captured while the queue is full is dropped: the callback leaves the queue
\* as it is
C15_QueueBounded ==
  [][ /\ Len(_audio_q) <= QueueCap
      /\ Len(_audio_q') <= QueueCap
      /\ ( produced' # produced /\ Len(_audio_q) = QueueCap )
         => _audio_q' = _audio_q
    ]_vars

C15_Witness ==
  /\ Len(_audio_q) = QueueCap
  /\ _audio_q[Len(_audio_q)].id < produced
  /\ _mic.running

\* C17: at any time at most one _processing_loop is running, whatever the
\* sequence of start() and stop() calls
C17_SingleConsumer ==
  Cardinality({t \in Threads : Alive(threads[t])}) <= 1

\* C18: a Full recognizer exists only while the session is Active, a Hot
\* recognizer only while it is not (Idle or waiting for a voiced chunk), and
\* the two never exist together
C18_RecognizerHandles ==
  /\ _full_recognizer # NoRec => _awake
  /\ _hot_recognizer # NoRec => ~_awake
  /\ ~( _full_recognizer # NoRec /\ _hot_recognizer # NoRec )

\* C19: the session buffer is non-empty only while the session is Active, and
\* it is empty once stop() has returned, until the next start()
C19_BufferOnlyWhileActive ==
  /\ _session_buffer # <<>> => _awake
  /\ ( ~_running /\ stop_pc = "idle" ) => _session_buffer = <<>>

\* C20: the voiced chunk of the wake transition goes to the Full recognizer in
\* the same iteration, as the first chunk of the session; a chunk reaches the
\* Full recognizer straight from the gate, never after the Hot recognizer; and
\* the chunk whose hotword result was handled is dropped
C20_StartOnVoicedChunk ==
  [][\A t \in Threads :
       /\ "wake" \in Kinds(Appended(t))
          => /\ _full_recognizer' = FullRec
             /\ threads'[t].pc = "full_feed"
             /\ threads'[t].chunk.id = threads[t].chunk.id
       /\ ( threads'[t].pc = "full_feed" /\ threads[t].pc # "full_feed" )
          => /\ threads[t].pc = "vad"
             /\ threads'[t].chunk.id = threads[t].chunk.id
       /\ ( threads'[t].pc = "hot_feed" /\ threads[t].pc # "hot_feed" )
          => /\ threads[t].pc = "vad"
             /\ "wake" \notin Kinds(Appended(t))
       /\ Leaves(t, "hot_handle")
          => /\ threads'[t].pc = "top"
             /\ threads'[t].chunk = NoChunk
    ]_vars

C20_Witness ==
  \E t \in Threads :
    /\ threads[t].pc = "full_feed"
    /\ threads[t].chunk.id > 1
    /\ threads[t].emitted # <<>>
    /\ threads[t].emitted[Len(threads[t].emitted)].kind = "wake"

\* C21: once the running flag is cleared while a processing loop is alive,
\* every loop has ended at some later time, unless a start() sets the flag again
C21_ShutdownTerminates ==
  ( ~_running /\ \E t \in Threads : Alive(threads[t]) )
    ~> ( _running \/ \A t \in Threads : ~Alive(threads[t]) )

C21_Witness ==
  \E t \in Threads :
    /\ threads[t].pc = "done"
    /\ ~_running /\ stop_pc = "idle"
    /\ produced > 0

====
